---- MODULE Spec2Model ----
(***************************************************************************)
(* State-machine model of video_downloader.py: the platform catalog and    *)
(* its substring detection, the progress hook, download_video() and the    *)
(* run()/main() application loop.  The extractor (yt_dlp) and the terminal *)
(* prompts are environment: their results are drawn from small sets.       *)
(***************************************************************************)
EXTENDS Integers, Sequences, FiniteSets, TLC

(* ------------------------------ bounds --------------------------------- *)
\* menu iterations in which a platform is selected
MaxIter == 2
\* progress-hook calls the extractor makes during one fetch
MaxSignals == 3

(* ------------------------- strings as char tuples ----------------------- *)
UpperCase == <<"A","B","C","D","E","F","G","H","I","J","K","L","M",
               "N","O","P","Q","R","S","T","U","V","W","X","Y","Z">>
LowerCase == <<"a","b","c","d","e","f","g","h","i","j","k","l","m",
               "n","o","p","q","r","s","t","u","v","w","x","y","z">>
Whitespace == {" ", "\t", "\n"}

\* str.lower(), one character
LowerChar(c) ==
    IF \E i \in 1..Len(UpperCase) : UpperCase[i] = c
    THEN LowerCase[CHOOSE i \in 1..Len(UpperCase) : UpperCase[i] = c]
    ELSE c

\* str.lower()
Lower(s) == [i \in 1..Len(s) |-> LowerChar(s[i])]

\* the `in` operator on strings: sub occurs in s as a contiguous substring
Contains(s, sub) ==
    \E k \in 0..(Len(s) - Len(sub)) :
        \A j \in 1..Len(sub) : s[k + j] = sub[j]

\* faulty variant of Strip: the input is not trimmed
StripKeepAll(s) == s
\* str.strip(): drop leading and trailing whitespace
Strip(s) ==
    LET keep == {i \in 1..Len(s) : s[i] \notin Whitespace}
    IN  IF keep = {} THEN <<>>
        ELSE LET lo == CHOOSE i \in keep : \A j \in keep : i <= j
                 hi == CHOOSE i \in keep : \A j \in keep : j <= i
             IN  SubSeq(s, lo, hi)

(* --------------------------- platform catalog --------------------------- *)
YOUTUBE ==
    [name |-> "YouTube",
     domains |-> << <<"y","o","u","t","u","b","e",".","c","o","m">>,
                    <<"y","o","u","t","u",".","b","e">> >>,
     format_preference |-> "bestvideo[ext=mp4]+bestaudio[ext=m4a]/best[ext=mp4]/best"]
INSTAGRAM ==
    [name |-> "Instagram",
     domains |-> << <<"i","n","s","t","a","g","r","a","m",".","c","o","m">> >>,
     format_preference |-> "best"]
FACEBOOK ==
    [name |-> "Facebook",
     domains |-> << <<"f","a","c","e","b","o","o","k",".","c","o","m">>,
                    <<"f","b",".","w","a","t","c","h">> >>,
     format_preference |-> "best"]
TWITTER ==
    [name |-> "Twitter/X",
     domains |-> << <<"t","w","i","t","t","e","r",".","c","o","m">>,
                    <<"x",".","c","o","m">> >>,
     format_preference |-> "best"]
PINTEREST ==
    [name |-> "Pinterest",
     domains |-> << <<"p","i","n","t","e","r","e","s","t",".","c","o","m">> >>,
     format_preference |-> "best"]

\* Optional[PlatformConfig]: the value None
NoPlatform == [name |-> "None", domains |-> <<>>, format_preference |-> ""]

\* the dict's keys in insertion order, and the dict
GetAllKeys == <<"1", "2", "3", "4", "5">>
GetAll ==
    [k \in {"1", "2", "3", "4", "5"} |->
        CASE k = "1" -> YOUTUBE
          [] k = "2" -> INSTAGRAM
          [] k = "3" -> FACEBOOK
          [] k = "4" -> TWITTER
          [] k = "5" -> PINTEREST]

\* any(domain in url.lower() for domain in platform.domains)
Matches(platform, url) ==
    \E d \in 1..Len(platform.domains) : Contains(Lower(url), platform.domains[d])

\* first platform, in dict order, one of whose domains occurs in the URL
DetectPlatform(url) ==
    LET hits == {i \in 1..Len(GetAllKeys) : Matches(GetAll[GetAllKeys[i]], url)}
    IN  IF hits = {} THEN NoPlatform
        ELSE GetAll[GetAllKeys[CHOOSE i \in hits : \A j \in hits : i <= j]]

(* ------------------------------- inputs --------------------------------- *)
\* what the user types at the URL prompt (before .strip())
RawUrls ==
    { <<>>,
      <<" ", " ">>,
      <<" ","y","o","u","t","u",".","b","e","/","a"," ">>,
      <<"W","W","W",".","I","N","S","T","A","G","R","A","M",".","C","O","M","/","r">>,
      <<"n","e","t","f","l","i","x",".","c","o","m","/","v">>,
      <<"e","x","a","m","p","l","e",".","o","r","g","/","v">>,
      <<"f","b",".","w","a","t","c","h","/","y","o","u","t","u","b","e",".","c","o","m">> }

\* the user's answer at the menu prompt: choices=['0','1','2','3','4','5']
Choices == {"0", "1", "2", "3", "4", "5"}

\* metadata dicts the probe can return; duration <<>> stands for the value None
Infos ==
    { [title |-> "t1", duration |-> <<125>>],
      [title |-> "t2"],
      [duration |-> <<125>>],
      [title |-> "t1", duration |-> <<>>] }

\* status dicts the extractor passes to the progress hook
Signals ==
    { [status |-> "downloading", downloaded_bytes |-> 1, total_bytes |-> 2],
      [status |-> "downloading", downloaded_bytes |-> 2, total_bytes_estimate |-> 3],
      [status |-> "downloading"],
      [status |-> "finished"],
      [status |-> "error"] }

\* exception classes; KeyboardInterrupt derives from BaseException only
Exceptions == {"KeyboardInterrupt", "DownloadError", "EOFError", "TypeError"}
IsException(exc) == exc # "KeyboardInterrupt"

\* dict.get(key, default)
Get(d, key, default) == IF key \in DOMAIN d THEN d[key] ELSE default

(* ------------------------------- state ---------------------------------- *)
VARIABLES
    pc,               \* position of run()/main()
    iter,             \* menu iterations that selected a platform
    choice,           \* run(): choice
    rawUrl,           \* text typed at the URL prompt
    url,              \* run(): url (stripped)
    detected,         \* run(): detected_platform
    download_history, \* VideoDownloader.download_history
    log,              \* what the current iteration printed / called, in order
    dpc,              \* position inside download_video()
    dvPlatform,       \* download_video(): platform argument
    dvUrl,            \* download_video(): url argument
    info,             \* download_video(): info
    dvResult,         \* download_video(): return value
    hook,             \* the call's DownloadProgressHook
    inflight,         \* extractor: a 'downloading' was sent and no 'finished' since
    nsig,             \* extractor: hook calls made during this fetch
    sig,              \* extractor: the last status dict passed to the hook
    leaked,           \* indicators still running whose hook object is gone
    exitCode,         \* <<>> while running, else <<code>>
    lastExc,          \* this iteration's last raised exception and where
    answer,           \* this iteration's last yes/no answer
    succ              \* metadata of the calls that returned True, in order

runLocals == <<choice, rawUrl, url, detected>>
dvLocals  == <<dvPlatform, dvUrl, info>>
hookVars  == <<hook, inflight, nsig, sig>>
vars == <<pc, iter, choice, rawUrl, url, detected, download_history, log, dpc,
          dvPlatform, dvUrl, info, dvResult, hook, inflight, nsig, sig, leaked,
          exitCode, lastExc, answer, succ>>

NoInfo   == [none |-> TRUE]
NoSignal == [status |-> "none"]
NoExc    == [type |-> "none", at |-> "none"]

\* DownloadProgressHook.__init__; created/stopped count Progress.start()/stop()
NewHook == [progress |-> "None", task |-> "None", total |-> 0, completed |-> 0,
            created |-> 0, stopped |-> 0]

(* ---------------------------- progress hook ----------------------------- *)
\* d.get('total_bytes') or d.get('total_bytes_estimate', 0)
TotalHint(d) ==
    IF Get(d, "total_bytes", 0) # 0 THEN d["total_bytes"]
    ELSE Get(d, "total_bytes_estimate", 0)

\* faulty variant of HookCall: no `if self.progress is None` guard
HookCallAlwaysCreate(h, d) ==
    IF d.status = "downloading"
    THEN [h EXCEPT !.progress = "Progress", !.task = "task",
                   !.total = TotalHint(d), !.created = @ + 1,
                   !.completed = Get(d, "downloaded_bytes", 0)]
    ELSE IF d.status = "finished" /\ h.progress # "None"
    THEN [h EXCEPT !.progress = "None", !.stopped = @ + 1]
    ELSE h
\* DownloadProgressHook.__call__
HookCall(h, d) ==
    IF d.status = "downloading"
    THEN LET h1 == IF h.progress = "None"
                   THEN [h EXCEPT !.progress = "Progress", !.task = "task",
                                  !.total = TotalHint(d), !.completed = 0,
                                  !.created = @ + 1]
                   ELSE h
         IN  [h1 EXCEPT !.completed = Get(d, "downloaded_bytes", 0)]
    ELSE IF d.status = "finished"
    THEN IF h.progress # "None"
         THEN [h EXCEPT !.progress = "None", !.stopped = @ + 1]
         ELSE h
    ELSE h

(* ------------------------------ rendering ------------------------------- *)
\* show_video_info: int(duration) raises TypeError when duration is None
ShowVideoInfoRaises(i) == Get(i, "duration", <<0>>) = <<>>

\* show_statistics
ShowStatistics(history) ==
    IF history = <<>> THEN <<>> ELSE <<"statistics">>

\* faulty variant of ExitOutput: the farewell comes first
ExitOutputStatsLast(history) ==
    <<"farewell">> \o (IF history # <<>> THEN ShowStatistics(history) ELSE <<>>)
\* run(): the two exit branches: statistics if any history, then the farewell
ExitOutput(history) ==
    (IF history # <<>> THEN ShowStatistics(history) ELSE <<>>) \o <<"farewell">>

\* faulty variant of HistoryEntry: show_video_info's default instead
HistoryEntryNoFallback(i) == Get(i, "title", "N/A")
\* info.get('title', 'Unknown')
HistoryEntry(i) == Get(i, "title", "Unknown")

(* --------------------------- exception handling ------------------------- *)
\* faulty variants of DvCatches: a bare `except:`, and no handler at all
DvCatchesAll(exc) == TRUE
DvCatchesNothing(exc) == FALSE
\* download_video(): except Exception
DvCatches(exc) == IsException(exc)

\* main(): except KeyboardInterrupt -> sys.exit(0); except Exception -> sys.exit(1)
MainExitCode(exc) == IF exc = "KeyboardInterrupt" THEN 0 ELSE 1

\* main(): the handlers of the try around VideoDownloader().run()
MainExcept(exc, at) ==
    /\ lastExc' = [type |-> exc, at |-> at]
    /\ exitCode' = <<MainExitCode(exc)>>
    /\ IF exc = "KeyboardInterrupt"
       THEN /\ pc' = "Interrupted"
            /\ log' = Append(log, "cancelled_notice")
       ELSE /\ pc' = "Crashed"
            /\ log' = Append(log, "unexpected_error")

Init ==
    /\ pc = "MenuShown"
    /\ iter = 0
    /\ choice = "none"
    /\ rawUrl = <<>>
    /\ url = <<>>
    /\ detected = NoPlatform
    /\ download_history = <<>>
    /\ log = <<"banner", "menu">>
    /\ dpc = "none"
    /\ dvPlatform = NoPlatform
    /\ dvUrl = <<>>
    /\ info = NoInfo
    /\ dvResult = "none"
    /\ hook = NewHook
    /\ inflight = FALSE
    /\ nsig = 0
    /\ sig = NoSignal
    /\ leaked = 0
    /\ exitCode = <<>>
    /\ lastExc = NoExc
    /\ answer = "none"
    /\ succ = <<>>

(* ---------------------------- download_video ---------------------------- *)
\* faulty variant of CallDownload: the detected platform is passed
CallDownloadDetected(events) ==
    /\ pc' = "Downloading"
    /\ dpc' = "probe"
    /\ dvPlatform' = detected'
    /\ dvUrl' = url
    /\ info' = NoInfo
    /\ dvResult' = "none"
    /\ hook' = NewHook
    /\ inflight' = FALSE
    /\ nsig' = 0
    /\ sig' = NoSignal
    /\ log' = log \o events \o <<"download_video", "extract_info">>
\* run() line 460 calling download_video(url, platform): configure_ydl_options
\* builds a fresh hook, then the probe starts under the status spinner
CallDownload(events) ==
    /\ pc' = "Downloading"
    /\ dpc' = "probe"
    /\ dvPlatform' = GetAll[choice]
    /\ dvUrl' = url
    /\ info' = NoInfo
    /\ dvResult' = "none"
    /\ hook' = NewHook
    /\ inflight' = FALSE
    /\ nsig' = 0
    /\ sig' = NoSignal
    /\ log' = log \o events \o <<"download_video", "extract_info">>

\* download_video() returns `result`; run() goes on to 'Download another video?'
DvReturn(result, events) ==
    /\ pc' = "ContinuePrompt"
    /\ dpc' = "returned"
    /\ dvResult' = result
    /\ log' = log \o events
    /\ UNCHANGED exitCode

\* faulty variant of DvExcept: a caught error starts the probe again
DvExceptRetry(exc) ==
    IF DvCatches(exc)
    THEN /\ dpc' = "probe"
         /\ log' = log \o <<"error_view", "extract_info">>
         /\ lastExc' = [type |-> exc, at |-> dpc]
         /\ UNCHANGED <<pc, dvResult, exitCode>>
    ELSE /\ MainExcept(exc, dpc)
         /\ dpc' = "raised"
         /\ UNCHANGED dvResult
\* an exception `exc` raised inside download_video()'s try block
DvExcept(exc) ==
    IF DvCatches(exc)
    THEN /\ DvReturn("False", <<"error_view">>)
         /\ lastExc' = [type |-> exc, at |-> dpc]
    ELSE /\ MainExcept(exc, dpc)
         /\ dpc' = "raised"
         /\ UNCHANGED dvResult

\* extract_info(url, download=False) returns; show_video_info; 'Proceed?' is asked
ProbeReturns ==
    /\ pc = "Downloading" /\ dpc = "probe"
    /\ \E i \in Infos :
        /\ info' = i
        /\ IF ShowVideoInfoRaises(i)
           THEN DvExcept("TypeError")
           ELSE /\ dpc' = "confirm"
                /\ log' = Append(log, "video_info")
                /\ UNCHANGED <<pc, dvResult, exitCode, lastExc>>
    /\ UNCHANGED <<iter, runLocals, download_history, dvPlatform, dvUrl, hookVars,
                   leaked, answer, succ>>

\* faulty variant of AnswerProceedResult: the answer is not looked at
AnswerProceedIgnored(ans) ==
    /\ dpc' = "fetch"
    /\ log' = Append(log, "download")
    /\ UNCHANGED <<pc, dvResult, exitCode>>
\* Confirm.ask('Proceed with download?') returned `ans`
AnswerProceedResult(ans) ==
    IF ~ans
    THEN DvReturn("False", <<"cancelled_by_user">>)
    ELSE /\ dpc' = "fetch"
         /\ log' = Append(log, "download")
         /\ UNCHANGED <<pc, dvResult, exitCode>>
\* Confirm.ask('Proceed with download?') returns
AnswerProceed ==
    /\ pc = "Downloading" /\ dpc = "confirm"
    /\ \E ans \in BOOLEAN :
        /\ answer' = IF ans THEN "yes" ELSE "no"
        /\ AnswerProceedResult(ans)
    /\ UNCHANGED <<iter, runLocals, download_history, dvLocals, hookVars, leaked,
                   lastExc, succ>>

\* ydl.download([url]) calls the progress hook
FetchSignal ==
    /\ pc = "Downloading" /\ dpc = "fetch"
    /\ nsig < MaxSignals
    /\ \E d \in Signals :
        /\ hook' = HookCall(hook, d)
        /\ sig' = d
        /\ inflight' = CASE d.status = "downloading" -> TRUE
                         [] d.status = "finished" -> FALSE
                         [] OTHER -> inflight
    /\ nsig' = nsig + 1
    /\ UNCHANGED <<pc, iter, runLocals, download_history, log, dpc, dvLocals,
                   dvResult, leaked, exitCode, lastExc, answer, succ>>

\* lines 380-386 after ydl.download returned
FetchSuccess ==
    /\ DvReturn("True", <<"prepare_filename", "success_view">>)
    /\ download_history' = Append(download_history, HistoryEntry(info))
    /\ succ' = Append(succ, info)
    /\ UNCHANGED lastExc

\* ydl.download([url]) returns: every transfer it started has finished
FetchReturns ==
    /\ pc = "Downloading" /\ dpc = "fetch"
    /\ ~inflight
    /\ FetchSuccess
    /\ UNCHANGED <<iter, runLocals, dvLocals, hookVars, leaked, answer>>

\* the extractor (probe, download), or the 'Proceed?' prompt, raises
DvRaises ==
    /\ pc = "Downloading"
    /\ \E exc \in Exceptions :
        /\ \/ dpc \in {"probe", "fetch"} /\ exc \in {"KeyboardInterrupt", "DownloadError"}
           \/ dpc = "confirm" /\ exc \in {"KeyboardInterrupt", "EOFError"}
        /\ DvExcept(exc)
    /\ UNCHANGED <<iter, runLocals, download_history, dvLocals, hookVars, leaked,
                   answer, succ>>

(* --------------------------------- run ---------------------------------- *)
\* the exit branches of run() (lines 427-437 and 467-477); main() then returns
ExitRun(events) ==
    /\ pc' = "Exiting"
    /\ log' = log \o events \o ExitOutput(download_history)
    /\ exitCode' = <<0>>

\* `continue` / end of the loop body: the next iteration shows the menu again
BackToMenu(events) ==
    /\ pc' = "MenuShown"
    /\ log' = log \o events \o <<"menu">>
    /\ UNCHANGED exitCode

\* Prompt.ask('Select a platform') returns '0'
SelectExit ==
    /\ pc = "MenuShown"
    /\ choice' = "0"
    /\ ExitRun(<<>>)
    /\ UNCHANGED <<iter, rawUrl, url, detected, download_history, dpc, dvLocals,
                   dvResult, hookVars, leaked, lastExc, answer, succ>>

\* Prompt.ask('Select a platform') returns '1'..'5': the guide is shown and the
\* URL is asked for.  The previous iteration's locals and hook are gone.
SelectPlatform ==
    /\ pc = "MenuShown"
    /\ iter < MaxIter
    /\ \E k \in Choices \ {"0"} : choice' = k
    /\ iter' = iter + 1
    /\ pc' = "GuideShown"
    /\ log' = <<"guide">>
    /\ rawUrl' = <<>> /\ url' = <<>> /\ detected' = NoPlatform
    /\ dpc' = "none" /\ dvPlatform' = NoPlatform /\ dvUrl' = <<>>
    /\ info' = NoInfo /\ dvResult' = "none"
    /\ leaked' = leaked + (hook.created - hook.stopped)
    /\ hook' = NewHook /\ inflight' = FALSE /\ nsig' = 0 /\ sig' = NoSignal
    /\ lastExc' = NoExc /\ answer' = "none"
    /\ UNCHANGED <<download_history, exitCode, succ>>

\* Prompt.ask('Enter video URL').strip(); empty -> notice and `continue`
EnterUrl ==
    /\ pc = "GuideShown"
    /\ \E raw \in RawUrls :
        /\ rawUrl' = raw
        /\ url' = Strip(raw)
    /\ IF url' = <<>>
       THEN BackToMenu(<<"url_empty">>)
       ELSE /\ pc' = "PlatformCheck"
            /\ UNCHANGED <<log, exitCode>>
    /\ UNCHANGED <<iter, choice, detected, download_history, dpc, dvLocals, dvResult,
                   hookVars, leaked, lastExc, answer, succ>>

\* if detected_platform and detected_platform.name != platform.name
Mismatch(det, platform) == det # NoPlatform /\ det.name # platform.name

\* lines 450-460: detect, warn and ask on a mismatch, else download
PlatformCheck ==
    /\ pc = "PlatformCheck"
    /\ detected' = DetectPlatform(url)
    /\ IF Mismatch(detected', GetAll[choice])
       THEN /\ pc' = "MismatchPrompt"
            /\ log' = log \o <<"detect", "mismatch_warning">>
            /\ UNCHANGED <<dpc, dvLocals, dvResult, hookVars>>
       ELSE CallDownload(<<"detect">>)
    /\ UNCHANGED <<iter, choice, rawUrl, url, download_history, leaked, exitCode,
                   lastExc, answer, succ>>

\* Confirm.ask('Continue anyway?') returns
AnswerContinueAnyway ==
    /\ pc = "MismatchPrompt"
    /\ \E ans \in BOOLEAN :
        /\ answer' = IF ans THEN "yes" ELSE "no"
        /\ IF ~ans
           THEN /\ BackToMenu(<<>>)
                /\ UNCHANGED <<dpc, dvLocals, dvResult, hookVars>>
           ELSE /\ CallDownload(<<>>)
                /\ UNCHANGED exitCode
    /\ UNCHANGED <<iter, runLocals, download_history, leaked, lastExc, succ>>

\* Confirm.ask('Download another video?') returns
AnswerDownloadAnother ==
    /\ pc = "ContinuePrompt"
    /\ \E ans \in BOOLEAN :
        /\ answer' = IF ans THEN "yes" ELSE "no"
        /\ IF ~ans THEN ExitRun(<<>>) ELSE BackToMenu(<<>>)
    /\ UNCHANGED <<iter, runLocals, download_history, dpc, dvLocals, dvResult,
                   hookVars, leaked, lastExc, succ>>

\* outside download_video(): a prompt raises (Ctrl-C, or EOF on stdin), or
\* Ctrl-C arrives between prompts; nothing in run() catches it
RunRaises ==
    /\ pc \in {"MenuShown", "GuideShown", "PlatformCheck", "MismatchPrompt",
               "ContinuePrompt"}
    /\ \E exc \in Exceptions :
        /\ \/ exc = "KeyboardInterrupt"
           \/ exc = "EOFError" /\ pc # "PlatformCheck"
        /\ MainExcept(exc, pc)
    /\ UNCHANGED <<iter, runLocals, download_history, dpc, dvLocals, dvResult,
                   hookVars, leaked, answer, succ>>

Next ==
    \/ SelectExit
    \/ SelectPlatform
    \/ EnterUrl
    \/ PlatformCheck
    \/ AnswerContinueAnyway
    \/ ProbeReturns
    \/ AnswerProceed
    \/ FetchSignal
    \/ FetchReturns
    \/ DvRaises
    \/ AnswerDownloadAnother
    \/ RunRaises

Spec == Init /\ [][Next]_vars

(* ------------------------------ properties ------------------------------ *)
Count(s, e) == Cardinality({i \in DOMAIN s : s[i] = e})
IsPrefix(s, t) == Len(s) <= Len(t) /\ SubSeq(t, 1, Len(s)) = s
\* what a step appended to the log
Added == SubSeq(log', Len(log) + 1, Len(log'))
\* the step raised nothing
NoRaise == lastExc' = lastExc
\* the step raised an exception of class t
Raised(t) == lastExc' # lastExc /\ lastExc'.type = t
\* the title a successful call is expected to record
ExpectedTitle(i) == IF "title" \in DOMAIN i THEN i.title ELSE "Unknown"
\* a string that is empty once surrounding whitespace is trimmed
BlankUrl(s) == \A i \in 1..Len(s) : s[i] \in Whitespace
\* download_video() is executing
InDv == pc = "Downloading" /\ dpc \in {"probe", "confirm", "fetch"}

\* what C1 requires of every step
C1_HistoryStep ==
    /\ IsPrefix(download_history, download_history')
    /\ (InDv /\ dpc' = "returned" /\ dvResult' = "True")
          => download_history' = Append(download_history, ExpectedTitle(info))
    /\ download_history' # download_history
          => InDv /\ dpc' = "returned" /\ dvResult' = "True"
\* C1: download_history is exactly, in call order, the titles (or 'Unknown'
\* when the metadata has no title) of the download_video() calls that returned
\* True: a successful return appends one entry, nothing else changes the list.
C1_HistoryIsSuccessfulTitles ==
    /\ [](/\ Len(download_history) = Len(succ)
          /\ \A k \in 1..Len(succ) : download_history[k] = ExpectedTitle(succ[k]))
    /\ [][C1_HistoryStep]_vars
C1_Witness ==
    /\ download_history = <<"Unknown">>
    /\ iter = 2 /\ dpc = "returned" /\ dvResult = "False"

\* what C2 requires of every step
C2_Step ==
    (InDv /\ dpc \in {"probe", "fetch"} /\ Raised("DownloadError"))
       => /\ pc' = "ContinuePrompt" /\ dpc' = "returned"
          /\ dvResult' = "False"
          /\ exitCode' = <<>>
          /\ Count(log', "error_view") = 1
          /\ Count(log', "success_view") = 0
          /\ download_history' = download_history
\* C2: an exception the extractor raises during the probe or the fetch does not
\* leave download_video(): the call returns False, shows the error view exactly
\* once, and download_history is unchanged.
C2_ExtractorErrorsCaught == [][C2_Step]_vars
C2_Witness ==
    /\ lastExc = [type |-> "DownloadError", at |-> "fetch"]
    /\ dpc = "returned" /\ hook.created > 0
    /\ download_history # <<>>

\* what C3 requires of every step
C3_Step ==
    (InDv /\ dpc = "confirm" /\ NoRaise /\ answer' = "no")
       => /\ dpc' = "returned" /\ dvResult' = "False"
          /\ Count(log', "download") = 0
          /\ Count(log', "cancelled_by_user") = 1
          /\ Count(log', "error_view") = 0
          /\ download_history' = download_history
          /\ hook' = NewHook
\* C3: when the probe succeeded and 'Proceed with download?' is declined, the
\* call returns False, the extractor's download is never invoked, the history
\* is unchanged and the cancellation notice, not the error view, is shown.
C3_DeclineCancels == [][C3_Step]_vars
C3_Witness ==
    /\ dpc = "returned" /\ answer = "no" /\ info \in Infos
    /\ pc = "ContinuePrompt" /\ download_history # <<>>

\* what C4 requires of every step
C4_Step ==
    (pc = "GuideShown" /\ NoRaise /\ BlankUrl(rawUrl'))
       => /\ pc' = "MenuShown"
          /\ Count(log', "detect") = 0
          /\ Count(log', "download_video") = 0
          /\ dpc' = "none"
          /\ download_history' = download_history
\* C4: a URL that is empty after trimming sends the loop back to the menu:
\* no platform detection, no download_video(), history unchanged.
C4_EmptyUrlBackToMenu ==
    /\ [](pc \in {"PlatformCheck", "MismatchPrompt", "Downloading", "ContinuePrompt"}
             => ~BlankUrl(rawUrl))
    /\ [][C4_Step]_vars
C4_Witness ==
    /\ pc = "MenuShown" /\ rawUrl = <<" ", " ">>
    /\ Count(log, "url_empty") = 1 /\ download_history # <<>>

\* what C5 requires of every step
C5_Step ==
    /\ (pc # "Exiting" /\ pc' = "Exiting")
          => /\ Added = IF download_history # <<>>
                        THEN <<"statistics", "farewell">>
                        ELSE <<"farewell">>
             /\ \/ pc = "MenuShown" /\ choice' = "0"
                \/ pc = "ContinuePrompt" /\ answer' = "no"
    /\ (pc = "MenuShown" /\ NoRaise /\ choice' = "0") => pc' = "Exiting"
    /\ (pc = "ContinuePrompt" /\ NoRaise /\ answer' = "no") => pc' = "Exiting"
    /\ pc # "Exiting"
\* C5: entering Exiting (choice '0', or 'Download another video?' declined)
\* renders the statistics exactly once, before the farewell, when the history
\* is non-empty and not at all when it is empty; nothing follows Exiting.
C5_ExitStatistics == [][C5_Step]_vars
C5_Witness ==
    /\ pc = "Exiting" /\ choice = "0" /\ Len(download_history) = 2
    /\ Count(log, "statistics") = 1

\* the platform name a reader expects detection to give for each typed URL
ExpectedDetect(raw) ==
    CASE raw = <<" ","y","o","u","t","u",".","b","e","/","a"," ">> -> "YouTube"
      [] raw = <<"W","W","W",".","I","N","S","T","A","G","R","A","M",".","C","O","M","/","r">>
            -> "Instagram"
      [] raw = <<"n","e","t","f","l","i","x",".","c","o","m","/","v">> -> "Twitter/X"
      [] raw = <<"f","b",".","w","a","t","c","h","/","y","o","u","t","u","b","e",".","c","o","m">>
            -> "YouTube"
      [] OTHER -> "None"

\* what C6 requires of every step
C6_Step ==
    /\ (pc = "PlatformCheck" /\ NoRaise)
          => LET exp == ExpectedDetect(rawUrl)
                 mismatch == exp # "None" /\ exp # GetAll[choice].name
             IN  /\ detected'.name = exp
                 /\ mismatch => /\ pc' = "MismatchPrompt"
                                /\ Count(log', "download_video") = 0
                 /\ ~mismatch => /\ pc' = "Downloading" /\ dpc' = "probe"
                                 /\ dvPlatform' = GetAll[choice]
                                 /\ dvUrl' = url
                                 /\ Count(log', "download_video") = 1
    /\ (pc = "MismatchPrompt" /\ NoRaise /\ answer' = "no")
          => /\ pc' = "MenuShown" /\ dpc' = "none"
             /\ Count(log', "download_video") = 0
    /\ (pc = "MismatchPrompt" /\ NoRaise /\ answer' = "yes")
          => /\ pc' = "Downloading" /\ dpc' = "probe"
             /\ dvPlatform' = GetAll[choice]
             /\ dvUrl' = url
             /\ Count(log', "download_video") = 1
    /\ (pc # "MismatchPrompt" /\ pc' = "MismatchPrompt") => pc = "PlatformCheck"
\* C6: with a non-empty URL, 'Continue anyway?' is asked exactly when
\* detection gives a platform whose name differs from the selected one's;
\* declining returns to the menu without download_video(); accepting, or no
\* mismatch (detection giving none included), calls download_video() exactly
\* once with the selected platform's descriptor.
C6_MismatchConfirmation ==
    /\ [](Count(log, "download_video") <= 1)
    /\ [][C6_Step]_vars
C6_Witness ==
    /\ pc = "Downloading" /\ answer = "yes"
    /\ detected = TWITTER /\ dvPlatform = INSTAGRAM

\* what C7 requires of every step
C7_Step ==
    Raised("KeyboardInterrupt")
       => /\ pc' = "Interrupted"
          /\ exitCode' = <<0>>
          /\ Added = <<"cancelled_notice">>
          /\ dvResult' = dvResult
\* C7: the exit code is 0 when run() returns (Exiting) and when a keyboard
\* interrupt is raised anywhere in the session, download_video() included (the
\* interrupt is not caught there and the cancellation notice is printed); it
\* is non-zero exactly when another exception escapes the loop.
C7_ExitCodes ==
    /\ [](/\ pc = "Exiting" => exitCode = <<0>>
          /\ pc = "Interrupted" => exitCode = <<0>>
          /\ exitCode = <<1>> <=> pc = "Crashed"
          /\ pc = "Crashed" <=> /\ lastExc.type \in {"EOFError", "DownloadError", "TypeError"}
                                /\ lastExc.at \notin {"probe", "confirm", "fetch"}
          /\ exitCode = <<>> <=> pc \notin {"Exiting", "Interrupted", "Crashed"})
    /\ [][C7_Step]_vars
C7_Witness ==
    /\ pc = "Interrupted" /\ exitCode = <<0>>
    /\ lastExc = [type |-> "KeyboardInterrupt", at |-> "fetch"]
    /\ inflight

\* what C8 requires of every step
C8_Step ==
    /\ Count(Added, "download") > 0
          => /\ InDv /\ dpc = "confirm" /\ NoRaise /\ answer' = "yes"
             /\ info \in Infos /\ lastExc = NoExc
             /\ Count(log, "video_info") = 1
    /\ Count(Added, "extract_info") > 0
          => pc \in {"PlatformCheck", "MismatchPrompt"} /\ pc' = "Downloading"
    /\ (InDv /\ ~NoRaise) => dpc' \in {"returned", "raised"}
    /\ dpc \in {"returned", "raised"} => dpc' \in {dpc, "none"}
\* C8: one download_video() call probes at most once and invokes the download
\* at most once, the download only after its own probe succeeded and the user
\* accepted; a failed probe or fetch ends the call, nothing is retried.
C8_NoRetry ==
    /\ [](/\ Count(log, "extract_info") <= 1
          /\ Count(log, "download") <= 1)
    /\ [][C8_Step]_vars
C8_Witness ==
    /\ dpc = "returned" /\ dvResult = "False"
    /\ lastExc = [type |-> "DownloadError", at |-> "fetch"]
    /\ Count(log, "extract_info") = 1 /\ Count(log, "download") = 1

\* what C9 requires of every step
C9_Step ==
    (pc = "Downloading" /\ dpc = "fetch" /\ nsig' = nsig + 1)
       => LET d == sig'
              idle == hook.progress = "None"
          IN  /\ (d.status = "downloading" /\ idle)
                    => /\ hook'.progress # "None"
                       /\ hook'.created = hook.created + 1
                       /\ hook'.stopped = hook.stopped
                       /\ hook'.completed = Get(d, "downloaded_bytes", 0)
              /\ (d.status = "downloading" /\ ~idle)
                    => hook' = [hook EXCEPT !.completed = Get(d, "downloaded_bytes", 0)]
              /\ (d.status = "finished" /\ ~idle)
                    => /\ hook'.progress = "None"
                       /\ hook'.stopped = hook.stopped + 1
                       /\ hook'.created = hook.created
              /\ (d.status = "finished" /\ idle) => hook' = hook
              /\ d.status \notin {"downloading", "finished"} => hook' = hook
\* C9: the reporter is active exactly when a 'downloading' signal arrived
\* since the last 'finished' (or since creation): the first 'downloading' in
\* idle creates and starts one indicator, later ones only update the completed
\* count, 'finished' while active stops it, 'finished' while idle does nothing.
C9_ReporterStateMachine ==
    /\ [](/\ (hook.progress # "None") <=> inflight
          /\ hook.created - hook.stopped = IF inflight THEN 1 ELSE 0)
    /\ [][C9_Step]_vars
C9_Witness ==
    /\ hook.created = 2 /\ hook.stopped = 1 /\ hook.completed = 2
    /\ hook.total = 3 /\ inflight

\* C10: once download_video() has returned, with any outcome, the call's
\* reporter is idle and its indicator stopped: no indicator stays running into
\* the next menu iteration.
C10_IndicatorStoppedOnReturn ==
    /\ dpc = "returned" => hook.progress = "None" /\ hook.created = hook.stopped
    /\ leaked = 0
====
